---- MODULE Spec2Model ----
(***************************************************************************)
(* A model of alloc.h: the allocator interface and the arena, pool, stack, *)
(* scratch and freelist strategies.                                        *)
(*                                                                         *)
(* Memory is one flat array of machine words, mem[0 .. AddrMod-1].  An     *)
(* address, a size_t and a pointer each take one word, so                  *)
(* sizeof(size_t) = sizeof(void* ) = PtrSize = 1 and the freelist header   *)
(* {size, next} takes NodeSize = 2 words: the size at the node's address,  *)
(* the link in the word after it.  All size_t and address arithmetic is    *)
(* modulo AddrMod = 2^WordBits.  Pointers are absolute addresses, NULL = 0.*)
(* The intrusive structures of the code (pool links, freelist headers, the *)
(* scratch tracking array) live in mem, as they live in the buffers of the *)
(* program, so that a write through one view is seen through the others.   *)
(***************************************************************************)
EXTENDS Integers, Sequences, FiniteSets, TLC

VARIABLES kind, arena, stack, pool, freelist, scratch, mem,
          live, issued, markers, op, log, pc, damage

vars == <<kind, arena, stack, pool, freelist, scratch, mem,
          live, issued, markers, op, log, pc, damage>>

(* ---- bounds of the model ---- *)
WordBits == 5
BufSize == 8
MinBase == 8
MaxSize == 3
MaxLive == 2
MaxMarks == 1
ChunkCount == 2
MaxTracked == 3
ScratchBufSize == 10
MaxAftermath == 1

(* ---- program constants, in words ---- *)
PtrSize == 1
InitialCapacity == 8
NodeSize == 2 * PtrSize

RECURSIVE Pow2(_)
Pow2(n) == IF n = 0 THEN 1 ELSE 2 * Pow2(n - 1)

AddrMod == Pow2(WordBits)
SIZE_MAX == AddrMod - 1
NULL == 0

Addr == 0 .. (AddrMod - 1)
Bases == {MinBase, MinBase + 1}
Sizes == 0 .. MaxSize
(* the arena is also asked for sizes near the top of size_t *)
InSizes(k) == IF k = "arena" THEN Sizes \cup {SIZE_MAX} ELSE Sizes
Alignments == {1, 2, 4}
ChunkSizes == {2, InitialCapacity * PtrSize}
CoreKinds == {"arena", "stack", "pool", "freelist"}

(* size_t / uintptr_t arithmetic: the value modulo 2^WordBits *)
Wrap(x) == (x + 4 * AddrMod) % AddrMod

Min(a, b) == IF a < b THEN a ELSE b

(* a & b on unsigned words *)
RECURSIVE BitAnd(_, _)
BitAnd(a, b) ==
  IF a = 0 \/ b = 0 THEN 0
  ELSE (a % 2) * (b % 2) + 2 * BitAnd(a \div 2, b \div 2)

(* align_forward, alloc.h:135 *)
align_forward(ptr, alignment) ==
  LET modulo == BitAnd(ptr, Wrap(alignment - 1))
  IN  IF modulo # 0 THEN Wrap(ptr + alignment - modulo) ELSE ptr

(* memcpy(dst, src, n) on the flat memory *)
memcpy(m, dst, src, n) ==
  [a \in Addr |->
     IF Wrap(a - dst) < n THEN m[Wrap(src + Wrap(a - dst))] ELSE m[a]]

(***************************************************************************)
(* The state the handlers work on, as one record ("world"): the strategy   *)
(* structs, the memory, the releases a decorator passed to its backing     *)
(* allocator (log) and whether a call failed to return (hung).  Every      *)
(* handler maps a world and its arguments to [ret, w].                     *)
(***************************************************************************)
World ==
  [arena |-> arena, stack |-> stack, pool |-> pool, freelist |-> freelist,
   scratch |-> scratch, mem |-> mem, log |-> <<>>, hung |-> FALSE]

Ret(p, w) == [ret |-> p, w |-> w]

(* ---- arena, alloc.h:128-213 ---- *)
(* a variant that moves the cursor to the aligned offset before the check *)
arena_allocator_alloc_eager(w, size, alignment) ==
  LET a == w.arena
      aligned_offset == align_forward(a.offset, alignment)
  IN  IF Wrap(aligned_offset + size) > a.buffer_size
      THEN Ret(NULL, [w EXCEPT !.arena.offset = aligned_offset])
      ELSE Ret(Wrap(a.buffer + aligned_offset),
               [w EXCEPT !.arena.offset = Wrap(aligned_offset + size)])

arena_allocator_alloc(w, size, alignment) ==
  LET a == w.arena
      aligned_offset == align_forward(a.offset, alignment)
  IN  IF Wrap(aligned_offset + size) > a.buffer_size
      THEN Ret(NULL, w)
      ELSE Ret(Wrap(a.buffer + aligned_offset),
               [w EXCEPT !.arena.offset = Wrap(aligned_offset + size)])

arena_allocator_realloc(w, ptr, old_size, new_size, alignment) ==
  LET a == w.arena
      aligned_offset == align_forward(Wrap(ptr - a.buffer), alignment)
      r == arena_allocator_alloc(w, new_size, alignment)
  IN  IF ptr = NULL THEN arena_allocator_alloc(w, new_size, alignment)
      ELSE IF Wrap(ptr + old_size) = Wrap(a.buffer + a.offset)
              /\ Wrap(aligned_offset + new_size) <= a.buffer_size
      THEN Ret(ptr, [w EXCEPT !.arena.offset = Wrap(aligned_offset + new_size)])
      ELSE IF r.ret # NULL
      THEN Ret(r.ret, [r.w EXCEPT !.mem =
                         memcpy(r.w.mem, r.ret, ptr, Min(old_size, new_size))])
      ELSE r

arena_allocator_free(w, ptr, size) == Ret(NULL, w)

(* a variant that leaves the cursor where it is *)
arena_allocator_reset_keep(w) == w

arena_allocator_reset(w) == [w EXCEPT !.arena.offset = 0]

arena_allocator_init(w, buffer, size) ==
  [w EXCEPT !.arena = [buffer |-> buffer, buffer_size |-> size, offset |-> 0]]

(* ---- pool, alloc.h:215-296 ---- *)
(* a variant that hands out the chain head and leaves it on the chain *)
pool_allocator_alloc_peek(w, size, alignment) ==
  LET p == w.pool
  IN  IF size > p.chunk_size THEN Ret(NULL, w)
      ELSE IF p.free_list = NULL THEN Ret(NULL, w)
      ELSE Ret(p.free_list, w)

(* a variant that hands out a chunk for a request of any size *)
pool_allocator_alloc_anysize(w, size, alignment) ==
  LET p == w.pool
  IN  IF p.free_list = NULL THEN Ret(NULL, w)
      ELSE Ret(p.free_list, [w EXCEPT !.pool.free_list = w.mem[p.free_list]])

pool_allocator_alloc(w, size, alignment) ==
  LET p == w.pool
  IN  IF size > p.chunk_size THEN Ret(NULL, w)
      ELSE IF p.free_list = NULL THEN Ret(NULL, w)
      ELSE Ret(p.free_list, [w EXCEPT !.pool.free_list = w.mem[p.free_list]])

(* a variant that links the chunk in behind the chain head *)
pool_allocator_free_second(w, ptr, size) ==
  IF ptr = NULL THEN Ret(NULL, w)
  ELSE IF w.pool.free_list = NULL
  THEN Ret(NULL, [w EXCEPT !.mem[ptr] = NULL, !.pool.free_list = ptr])
  ELSE Ret(NULL, [w EXCEPT !.mem[ptr] = w.mem[w.pool.free_list],
                           !.mem[w.pool.free_list] = ptr])

pool_allocator_free(w, ptr, size) ==
  IF ptr = NULL THEN Ret(NULL, w)
  ELSE Ret(NULL, [w EXCEPT !.mem[ptr] = w.pool.free_list,
                           !.pool.free_list = ptr])

pool_allocator_realloc(w, ptr, old_size, new_size, alignment) ==
  LET p == w.pool
      r == pool_allocator_alloc(w, new_size, alignment)
      copied == [r.w EXCEPT !.mem =
                   memcpy(r.w.mem, r.ret, ptr, Min(old_size, new_size))]
  IN  IF new_size <= p.chunk_size /\ old_size <= p.chunk_size
      THEN Ret(ptr, w)
      ELSE IF r.ret # NULL /\ ptr # NULL
      THEN Ret(r.ret, pool_allocator_free(copied, ptr, old_size).w)
      ELSE r

RECURSIVE pool_init_loop(_, _)
pool_init_loop(w, i) ==
  IF i >= w.pool.chunk_count THEN w
  ELSE LET chunk == Wrap(w.pool.buffer
                         + (w.pool.chunk_count - 1 - i) * w.pool.chunk_size)
       IN  pool_init_loop([w EXCEPT !.mem[chunk] = w.pool.free_list,
                                    !.pool.free_list = chunk], i + 1)

pool_allocator_init(w, buffer, chunk_size, chunk_count) ==
  pool_init_loop([w EXCEPT !.pool = [buffer |-> buffer,
                                     chunk_size |-> chunk_size,
                                     chunk_count |-> chunk_count,
                                     free_list |-> NULL]], 0)

(* ---- stack, alloc.h:298-396 ---- *)
stack_allocator_alloc(w, size, alignment) ==
  LET s == w.stack
      aligned_offset == align_forward(s.offset, alignment)
  IN  IF Wrap(aligned_offset + size) > s.buffer_size
      THEN Ret(NULL, w)
      ELSE Ret(Wrap(s.buffer + aligned_offset),
               [w EXCEPT !.stack.offset = Wrap(aligned_offset + size)])

stack_allocator_realloc(w, ptr, old_size, new_size, alignment) ==
  LET s == w.stack
      aligned_offset == align_forward(Wrap(ptr - s.buffer), alignment)
      r == stack_allocator_alloc(w, new_size, alignment)
  IN  IF ptr = NULL THEN stack_allocator_alloc(w, new_size, alignment)
      ELSE IF Wrap(ptr + old_size) = Wrap(s.buffer + s.offset)
              /\ Wrap(aligned_offset + new_size) <= s.buffer_size
      THEN Ret(ptr, [w EXCEPT !.stack.offset = Wrap(aligned_offset + new_size)])
      ELSE IF r.ret # NULL
      THEN Ret(r.ret, [r.w EXCEPT !.mem =
                         memcpy(r.w.mem, r.ret, ptr, Min(old_size, new_size))])
      ELSE r

(* a variant that moves the cursor back to any block released *)
stack_allocator_free_any(w, ptr, size) ==
  IF ptr = NULL THEN Ret(NULL, w)
  ELSE Ret(NULL, [w EXCEPT !.stack.offset = Wrap(ptr - w.stack.buffer)])

stack_allocator_free(w, ptr, size) ==
  IF ptr = NULL THEN Ret(NULL, w)
  ELSE IF Wrap(ptr + size) = Wrap(w.stack.buffer + w.stack.offset)
  THEN Ret(NULL, [w EXCEPT !.stack.offset = Wrap(ptr - w.stack.buffer)])
  ELSE Ret(NULL, w)

stack_allocator_init(w, buffer, size) ==
  [w EXCEPT !.stack = [buffer |-> buffer, buffer_size |-> size, offset |-> 0]]

stack_allocator_mark(w) == [offset |-> w.stack.offset]

(* a variant that leaves the cursor where it is *)
stack_allocator_restore_keep(w, marker) == w

stack_allocator_restore(w, marker) ==
  [w EXCEPT !.stack.offset = marker.offset]

stack_allocator_reset(w) == [w EXCEPT !.stack.offset = 0]

(* ---- freelist, alloc.h:504-603 ---- *)
(* struct freelist_node { size_t size; freelist_node* next; } at address n *)
node_size(m, n) == m[n]
node_next(m, n) == m[Wrap(n + PtrSize)]

(* prev_ptr is the place a link is stored in: the free_list field of the   *)
(* struct (HeadField) or the address of a node's next field                *)
HeadField == -1
store_link(w, prev_ptr, v) ==
  IF prev_ptr = HeadField THEN [w EXCEPT !.freelist.free_list = v]
  ELSE [w EXCEPT !.mem[prev_ptr] = v]

(* the block found is unlinked and, when large enough, split: alloc.h:536-546 *)
freelist_take(w, prev_ptr, node, size, alignment) ==
  LET total_size == Wrap(size + alignment - 1)
      aligned_addr == align_forward(node, alignment)
      padding == Wrap(aligned_addr - node)
      w1 == store_link(w, prev_ptr, node_next(w.mem, node))
      new_node == Wrap(node + size + padding)
      w2 == [w1 EXCEPT !.mem[new_node] =
               Wrap(node_size(w1.mem, node) - Wrap(size + padding))]
      w3 == [w2 EXCEPT !.mem[Wrap(new_node + PtrSize)] = w2.freelist.free_list,
                       !.freelist.free_list = new_node]
  IN  IF node_size(w1.mem, node) > Wrap(total_size + NodeSize)
      THEN Ret(aligned_addr, w3)
      ELSE Ret(aligned_addr, w1)

(* the while loop of alloc.h:529-552; a walk of more than AddrMod nodes    *)
(* (fuel exhausted) revisits a node of an unchanged chain: it never ends   *)
RECURSIVE freelist_walk(_, _, _, _, _, _)
freelist_walk(w, prev_ptr, node, size, alignment, fuel) ==
  LET total_size == Wrap(size + alignment - 1)
      padding == Wrap(align_forward(node, alignment) - node)
  IN  IF node = NULL THEN Ret(NULL, w)
      ELSE IF fuel = 0 THEN Ret(NULL, [w EXCEPT !.hung = TRUE])
      ELSE IF node_size(w.mem, node) >= total_size
              /\ node_size(w.mem, node) >= Wrap(size + padding)
      THEN freelist_take(w, prev_ptr, node, size, alignment)
      ELSE freelist_walk(w, Wrap(node + PtrSize), node_next(w.mem, node),
                         size, alignment, fuel - 1)

freelist_allocator_alloc(w, size, alignment) ==
  freelist_walk(w, HeadField, w.freelist.free_list, size, alignment,
                AddrMod + 1)

freelist_allocator_free(w, ptr, size) ==
  IF ptr = NULL THEN Ret(NULL, w)
  ELSE LET w1 == [w EXCEPT !.mem[ptr] = size]
       IN  Ret(NULL, [w1 EXCEPT !.mem[Wrap(ptr + PtrSize)] = w1.freelist.free_list,
                                !.freelist.free_list = ptr])

freelist_allocator_realloc(w, ptr, old_size, new_size, alignment) ==
  LET r == freelist_allocator_alloc(w, new_size, alignment)
      copied == [r.w EXCEPT !.mem =
                   memcpy(r.w.mem, r.ret, ptr, Min(old_size, new_size))]
  IN  IF ptr = NULL THEN freelist_allocator_alloc(w, new_size, alignment)
      ELSE IF r.ret # NULL /\ ptr # NULL
      THEN Ret(r.ret, freelist_allocator_free(copied, ptr, old_size).w)
      ELSE r

freelist_allocator_init(w, buffer, size) ==
  [w EXCEPT !.freelist = [buffer |-> buffer, buffer_size |-> size,
                          free_list |-> buffer],
            !.mem[buffer] = size,
            !.mem[Wrap(buffer + PtrSize)] = NULL]

(* the free chain as the walk of alloc.h:527-551 sees it: the nodes from   *)
(* free_list on, each with the size its header records; a chain longer    *)
(* than AddrMod visits a node twice                                       *)
RECURSIVE chain_from(_, _, _)
chain_from(m, node, fuel) ==
  IF node = NULL \/ fuel = 0 THEN <<>>
  ELSE <<[addr |-> node, size |-> node_size(m, node)]>>
       \o chain_from(m, node_next(m, node), fuel - 1)

free_chain(w) == chain_from(w.mem, w.freelist.free_list, AddrMod + 1)

(* ---- spans ---- *)
Disjoint(a1, n1, a2, n2) == a1 + n1 <= a2 \/ a2 + n2 <= a1
Inside(a, n, lo, len) == lo <= a /\ a + n <= lo + len

(* the freelist heap is well formed: the chain ends, and its blocks hold   *)
(* their headers and lie in the buffer, apart from each other and from    *)
(* the blocks the client holds                                            *)
heap_well_formed(w, blocks) ==
  \A c \in {free_chain(w)} :
    /\ Len(c) <= AddrMod
    /\ \A i \in 1 .. Len(c) :
         /\ c[i].size >= NodeSize
         /\ Inside(c[i].addr, c[i].size, w.freelist.buffer, w.freelist.buffer_size)
         /\ \A j \in 1 .. Len(c) :
              i < j => Disjoint(c[i].addr, c[i].size, c[j].addr, c[j].size)
         /\ \A b \in blocks : Disjoint(c[i].addr, c[i].size, b.ptr, b.size)

(* ---- the allocator handle: dispatch through its function pointers, ---- *)
(* ---- alloc.h:26-45; k names the strategy the handle was made by    ---- *)
alloc_alloc(k, w, size, alignment) ==
  CASE k = "arena" -> arena_allocator_alloc(w, size, alignment)
    [] k = "stack" -> stack_allocator_alloc(w, size, alignment)
    [] k = "pool" -> pool_allocator_alloc(w, size, alignment)
    [] k = "freelist" -> freelist_allocator_alloc(w, size, alignment)

alloc_realloc(k, w, ptr, old_size, new_size, alignment) ==
  CASE k = "arena" -> arena_allocator_realloc(w, ptr, old_size, new_size, alignment)
    [] k = "stack" -> stack_allocator_realloc(w, ptr, old_size, new_size, alignment)
    [] k = "pool" -> pool_allocator_realloc(w, ptr, old_size, new_size, alignment)
    [] k = "freelist" -> freelist_allocator_realloc(w, ptr, old_size, new_size, alignment)

alloc_free(k, w, ptr, size) ==
  LET wl == [w EXCEPT !.log = Append(@, [ptr |-> ptr, size |-> size])]
  IN  CASE k = "arena" -> arena_allocator_free(wl, ptr, size)
        [] k = "stack" -> stack_allocator_free(wl, ptr, size)
        [] k = "pool" -> pool_allocator_free(wl, ptr, size)
        [] k = "freelist" -> freelist_allocator_free(wl, ptr, size)

(* ---- scratch, alloc.h:398-502 ---- *)
(* scratch->allocations[i], an array of pointers in the backing's memory *)
slot(w, i) == Wrap(w.scratch.allocations + i * PtrSize)

(* a variant that drops the block when the tracking array cannot grow *)
scratch_allocator_alloc_drop(w, size, alignment) ==
  LET s == w.scratch
      r == alloc_alloc(s.backing, w, size, alignment)
      new_capacity == IF s.allocation_capacity = 0 THEN InitialCapacity
                      ELSE s.allocation_capacity * 2
      g == alloc_realloc(s.backing, r.w, s.allocations,
                         Wrap(s.allocation_capacity * PtrSize),
                         Wrap(new_capacity * PtrSize), PtrSize)
      grown == [g.w EXCEPT !.scratch.allocations = g.ret,
                           !.scratch.allocation_capacity = new_capacity]
      w2 == IF s.allocation_count >= s.allocation_capacity THEN grown ELSE r.w
      w3 == [w2 EXCEPT !.mem[slot(w2, s.allocation_count)] = r.ret,
                       !.scratch.allocation_count = s.allocation_count + 1]
  IN  IF r.ret = NULL \/ r.w.hung THEN Ret(NULL, r.w)
      ELSE IF s.allocation_count >= s.allocation_capacity
              /\ (g.w.hung \/ g.ret = NULL)
      THEN Ret(NULL, g.w)
      ELSE Ret(r.ret, w3)

scratch_allocator_alloc(w, size, alignment) ==
  LET s == w.scratch
      r == alloc_alloc(s.backing, w, size, alignment)
      new_capacity == IF s.allocation_capacity = 0 THEN InitialCapacity
                      ELSE s.allocation_capacity * 2
      g == alloc_realloc(s.backing, r.w, s.allocations,
                         Wrap(s.allocation_capacity * PtrSize),
                         Wrap(new_capacity * PtrSize), PtrSize)
      grown == [g.w EXCEPT !.scratch.allocations = g.ret,
                           !.scratch.allocation_capacity = new_capacity]
      w2 == IF s.allocation_count >= s.allocation_capacity THEN grown ELSE r.w
      w3 == [w2 EXCEPT !.mem[slot(w2, s.allocation_count)] = r.ret,
                       !.scratch.allocation_count = s.allocation_count + 1]
  IN  IF r.ret = NULL \/ r.w.hung THEN Ret(NULL, r.w)
      ELSE IF s.allocation_count >= s.allocation_capacity /\ g.w.hung
      THEN Ret(NULL, g.w)
      ELSE IF s.allocation_count >= s.allocation_capacity /\ g.ret = NULL
      THEN Ret(NULL, alloc_free(s.backing, g.w, r.ret, size).w)
      ELSE Ret(r.ret, w3)

(* the first slot holding ptr, or allocation_count when there is none *)
RECURSIVE scratch_find(_, _, _)
scratch_find(w, ptr, i) ==
  IF i >= w.scratch.allocation_count THEN i
  ELSE IF w.mem[slot(w, i)] = ptr THEN i
  ELSE scratch_find(w, ptr, i + 1)

scratch_allocator_realloc(w, ptr, old_size, new_size, alignment) ==
  LET s == w.scratch
      r == alloc_realloc(s.backing, w, ptr, old_size, new_size, alignment)
      i == scratch_find(r.w, ptr, 0)
  IN  IF ptr = NULL THEN scratch_allocator_alloc(w, new_size, alignment)
      ELSE IF r.ret = NULL \/ r.w.hung THEN Ret(NULL, r.w)
      ELSE IF i < s.allocation_count
      THEN Ret(r.ret, [r.w EXCEPT !.mem[slot(r.w, i)] = r.ret])
      ELSE r

scratch_allocator_free(w, ptr, size) == Ret(NULL, w)

scratch_allocator_init(w, backing) ==
  [w EXCEPT !.scratch = [backing |-> backing, allocations |-> NULL,
                         allocation_count |-> 0, allocation_capacity |-> 0]]

RECURSIVE scratch_reset_loop(_, _)
scratch_reset_loop(w, i) ==
  IF i >= w.scratch.allocation_count THEN w
  ELSE scratch_reset_loop(
         alloc_free(w.scratch.backing, w, w.mem[slot(w, i)], 0).w, i + 1)

scratch_allocator_reset(w) ==
  [scratch_reset_loop(w, 0) EXCEPT !.scratch.allocation_count = 0]

(***************************************************************************)
(* The client.  kind is the strategy behind the handle the client calls.   *)
(* live (core strategies) and issued (scratch) record the blocks the       *)
(* client holds, with the sizes it asked for: the client passes only these *)
(* (or NULL) to reallocate and release, as the interface requires.         *)
(* markers are the stack markers the client holds.  op is the last call    *)
(* and its result; log lists the releases that call passed to the backing  *)
(* allocator; pc is "hung" once a call failed to return.                   *)
(***************************************************************************)
Kinds == CoreKinds \cup {"scratch"}

Block(p, n) == [ptr |-> p, size |-> n]
NullBlocks == {Block(NULL, 0)}

Unbound ==
  [arena |-> [buffer |-> NULL, buffer_size |-> 0, offset |-> 0],
   stack |-> [buffer |-> NULL, buffer_size |-> 0, offset |-> 0],
   pool |-> [buffer |-> NULL, chunk_size |-> 0, chunk_count |-> 0,
             free_list |-> NULL],
   freelist |-> [buffer |-> NULL, buffer_size |-> 0, free_list |-> NULL],
   scratch |-> [backing |-> "none", allocations |-> NULL,
                allocation_count |-> 0, allocation_capacity |-> 0],
   mem |-> [a \in Addr |-> 0], log |-> <<>>, hung |-> FALSE]

(* the init call of strategy k over a buffer of n words at address b *)
Bind(k, w, b, n, cs) ==
  CASE k = "arena" -> arena_allocator_init(w, b, n)
    [] k = "stack" -> stack_allocator_init(w, b, n)
    [] k = "pool" -> pool_allocator_init(w, b, cs, ChunkCount)
    [] k = "freelist" -> freelist_allocator_init(w, b, n)

(* the record of a call: its name, its result and, for the arena,         *)
(* whether the call before it was a reset                                 *)
Call(name, ret) ==
  [name |-> name, ret |-> ret,
   prev |-> IF kind = "arena" /\ op.name = "reset" THEN "reset" ELSE "none"]

Commit(w) ==
  /\ arena' = w.arena
  /\ stack' = w.stack
  /\ pool' = w.pool
  /\ freelist' = w.freelist
  /\ scratch' = w.scratch
  /\ mem' = w.mem
  /\ log' = w.log
  /\ pc' = IF w.hung THEN "hung" ELSE "run"

(* The model follows a freelist heap that is no longer well formed for    *)
(* MaxAftermath more calls: damage counts the calls since it broke.       *)
Running == pc = "run" /\ damage <= MaxAftermath

Aftermath(w, blocks) ==
  damage' = IF damage > 0 THEN damage + 1
            ELSE IF heap_well_formed(w, blocks) THEN 0 ELSE 1

InitAs(k, bk, b, cs) ==
  /\ kind = k
  /\ LET w == IF k = "scratch"
              THEN scratch_allocator_init(
                     Bind(bk, Unbound, b, ScratchBufSize, cs), bk)
              ELSE Bind(k, Unbound, b, BufSize, cs)
     IN  /\ arena = w.arena
         /\ stack = w.stack
         /\ pool = w.pool
         /\ freelist = w.freelist
         /\ scratch = w.scratch
         /\ mem = w.mem
  /\ live = {}
  /\ issued = <<>>
  /\ markers = <<>>
  /\ op = [name |-> "init", ret |-> NULL, prev |-> "none"]
  /\ log = <<>>
  /\ pc = "run"
  /\ damage = 0

(* the chunk sizes to bind a pool with; strategies without chunks take 0 *)
ChunkChoice(k, bk) == IF "pool" \in {k, bk} THEN ChunkSizes ELSE {0}

(* the cursor strategies are bound to buffers at either base *)
BasesOf(k) == IF k \in {"arena", "stack"} THEN Bases ELSE {MinBase}

(* the state after the init call of a strategy in ks *)
InitOf(ks) ==
  \E k \in ks : \E b \in BasesOf(k) :
    \E bk \in (IF k = "scratch" THEN CoreKinds ELSE {"none"}) :
      \E cs \in ChunkChoice(k, bk) :
        InitAs(k, bk, b, cs)

Init == InitOf(Kinds)
InitArena == InitOf({"arena"})
InitStack == InitOf({"stack"})
InitPool == InitOf({"pool"})
InitFreelist == InitOf({"freelist"})
InitScratch == InitOf({"scratch"})
InitStrategies == InitOf(CoreKinds)

(* The client uses what it is given: it fills with zeros the block it got *)
(* from allocate, and the part a reallocate added, before its next call.  *)
memset0(m, dst, n) ==
  [a \in Addr |-> IF Wrap(a - dst) < n THEN 0 ELSE m[a]]

Used(r, kept, size) ==
  IF r.ret = NULL \/ r.w.hung \/ size <= kept THEN r.w
  ELSE [r.w EXCEPT !.mem = memset0(@, Wrap(r.ret + kept), size - kept)]

(* ---- calls on a core strategy through the handle ---- *)
(* a pool is asked for chunks beyond MaxLive as well: it has ChunkCount *)
Alloc ==
  /\ Running /\ kind \in CoreKinds
  /\ kind = "pool" \/ Cardinality(live) < MaxLive
  /\ \E size \in InSizes(kind), alignment \in Alignments :
       \E r \in {alloc_alloc(kind, World, size, alignment)} :
         \E blocks \in {IF r.ret # NULL /\ ~r.w.hung
                        THEN live \cup {Block(r.ret, size)} ELSE live} :
           /\ Commit([Used(r, 0, size) EXCEPT !.log = <<>>])
           /\ op' = Call("alloc", r.ret)
           /\ live' = blocks
           /\ Aftermath(r.w, blocks)
  /\ UNCHANGED <<kind, issued, markers>>

Realloc ==
  /\ Running /\ kind \in CoreKinds
  /\ \E b \in live \cup NullBlocks, new_size \in InSizes(kind),
        alignment \in Alignments :
       /\ b.ptr = NULL => Cardinality(live) < MaxLive
       /\ \E r \in {alloc_realloc(kind, World, b.ptr, b.size, new_size,
                                  alignment)} :
            \E blocks \in {IF r.ret # NULL /\ ~r.w.hung
                           THEN (live \ {b}) \cup {Block(r.ret, new_size)}
                           ELSE live} :
              /\ Commit([Used(r, Min(b.size, new_size), new_size)
                          EXCEPT !.log = <<>>])
              /\ op' = Call("realloc", r.ret)
              /\ live' = blocks
              /\ Aftermath(r.w, blocks)
  /\ UNCHANGED <<kind, issued, markers>>

Free ==
  /\ Running /\ kind \in CoreKinds
  /\ \E b \in live \cup NullBlocks :
       \E r \in {alloc_free(kind, World, b.ptr, b.size)} :
         /\ Commit([r.w EXCEPT !.log = <<>>])
         /\ op' = Call("free", NULL)
         /\ live' = live \ {b}
         /\ Aftermath(r.w, live \ {b})
  /\ UNCHANGED <<kind, issued, markers>>

ArenaReset ==
  /\ Running /\ kind = "arena"
  /\ \E w \in {arena_allocator_reset(World)} : Commit(w)
  /\ op' = Call("reset", NULL)
  /\ live' = {}
  /\ UNCHANGED <<kind, issued, markers, damage>>

(* ---- stack markers ---- *)
StackMark ==
  /\ Running /\ kind = "stack"
  /\ Len(markers) < MaxMarks
  /\ markers' = Append(markers, stack_allocator_mark(World))
  /\ op' = Call("mark", NULL)
  /\ UNCHANGED <<kind, arena, stack, pool, freelist, scratch, mem, live,
                 issued, log, pc, damage>>

(* a marker is restored only while the cursor is at or above it; the      *)
(* markers taken after it are dead, and so are the blocks above it        *)
StackRestore ==
  /\ Running /\ kind = "stack"
  /\ \E i \in 1 .. Len(markers) :
       /\ markers[i].offset <= stack.offset
       /\ \E w \in {stack_allocator_restore(World, markers[i])} : Commit(w)
       /\ markers' = SubSeq(markers, 1, i)
       /\ live' = {b \in live :
                     b.ptr - stack.buffer + b.size <= markers[i].offset}
  /\ op' = Call("restore", NULL)
  /\ UNCHANGED <<kind, issued, damage>>

StackReset ==
  /\ Running /\ kind = "stack"
  /\ \E w \in {stack_allocator_reset(World)} : Commit(w)
  /\ op' = Call("reset", NULL)
  /\ live' = {}
  /\ markers' = <<>>
  /\ UNCHANGED <<kind, issued, damage>>

(* ---- calls on the scratch decorator ---- *)
(* what the client of a scratch allocator holds in the backing's heap:    *)
(* the blocks issued and the tracking array                               *)
ScratchBlocks(w, iss) ==
  {iss[i] : i \in 1 .. Len(iss)} \cup
  (IF w.scratch.allocations = NULL THEN {}
   ELSE {Block(w.scratch.allocations,
               w.scratch.allocation_capacity * PtrSize)})

ScratchAlloc ==
  /\ Running /\ kind = "scratch"
  /\ Len(issued) < MaxTracked
  /\ \E size \in Sizes, alignment \in Alignments :
       \E r \in {scratch_allocator_alloc(World, size, alignment)} :
         \E iss \in {IF r.ret # NULL /\ ~r.w.hung
                     THEN Append(issued, Block(r.ret, size)) ELSE issued} :
           /\ Commit(Used(r, 0, size))
           /\ op' = Call("alloc", r.ret)
           /\ issued' = iss
           /\ Aftermath(r.w, ScratchBlocks(r.w, iss))
  /\ UNCHANGED <<kind, live, markers>>

ScratchRealloc ==
  /\ Running /\ kind = "scratch"
  /\ \E i \in 0 .. Len(issued), new_size \in Sizes,
        alignment \in Alignments :
       /\ i = 0 => Len(issued) < MaxTracked
       /\ \E b \in {IF i = 0 THEN Block(NULL, 0) ELSE issued[i]} :
           \E r \in {scratch_allocator_realloc(World, b.ptr, b.size, new_size,
                                               alignment)} :
             \E iss \in {IF r.ret = NULL \/ r.w.hung THEN issued
                         ELSE IF i = 0
                         THEN Append(issued, Block(r.ret, new_size))
                         ELSE [issued EXCEPT ![i] = Block(r.ret, new_size)]} :
               /\ Commit(Used(r, Min(b.size, new_size), new_size))
               /\ op' = Call("realloc", r.ret)
               /\ issued' = iss
               /\ Aftermath(r.w, ScratchBlocks(r.w, iss))
  /\ UNCHANGED <<kind, live, markers>>

ScratchFree ==
  /\ Running /\ kind = "scratch"
  /\ \E i \in 0 .. Len(issued) :
       \E b \in {IF i = 0 THEN Block(NULL, 0) ELSE issued[i]} :
         \E r \in {scratch_allocator_free(World, b.ptr, b.size)} :
           /\ Commit(r.w)
           /\ op' = Call("free", NULL)
  /\ UNCHANGED <<kind, live, issued, markers, damage>>

ScratchReset ==
  /\ Running /\ kind = "scratch"
  /\ \E w \in {scratch_allocator_reset(World)} :
       /\ Commit(w)
       /\ Aftermath(w, ScratchBlocks(w, <<>>))
  /\ op' = Call("reset", NULL)
  /\ issued' = <<>>
  /\ UNCHANGED <<kind, live, markers>>

NextArena == Alloc \/ Realloc \/ Free \/ ArenaReset
NextStack == Alloc \/ Realloc \/ Free \/ StackMark \/ StackRestore \/ StackReset
NextCore == Alloc \/ Realloc \/ Free
NextStrategies == Alloc \/ Realloc \/ Free \/ ArenaReset
                  \/ StackMark \/ StackRestore \/ StackReset
NextScratch == ScratchAlloc \/ ScratchRealloc \/ ScratchFree \/ ScratchReset

Next == Alloc \/ Realloc \/ Free \/ ArenaReset
        \/ StackMark \/ StackRestore \/ StackReset
        \/ ScratchAlloc \/ ScratchRealloc \/ ScratchFree \/ ScratchReset

Spec == Init /\ [][Next]_vars
SpecArena == InitArena /\ [][NextArena]_vars
SpecStack == InitStack /\ [][NextStack]_vars
SpecPool == InitPool /\ [][NextCore]_vars
SpecFreelist == InitFreelist /\ [][NextCore]_vars
SpecScratch == InitScratch /\ [][NextScratch]_vars
SpecStrategies == InitStrategies /\ [][NextStrategies]_vars

(***************************************************************************)
(* The claims.  A claim about the result of a call from every state is    *)
(* stated over the handler applied to the current state (World).          *)
(***************************************************************************)

(* C1: for every strategy and every state, reallocate(NULL, old_size,     *)
(* new_size, alignment) returns what allocate(new_size, alignment)        *)
(* returns and leaves the state allocate would leave, for every old_size  *)
C1_ReallocNullIsAlloc ==
  \A old_size \in Sizes, new_size \in Sizes, alignment \in Alignments :
    IF kind = "scratch"
    THEN scratch_allocator_realloc(World, NULL, old_size, new_size, alignment)
         = scratch_allocator_alloc(World, new_size, alignment)
    ELSE alloc_realloc(kind, World, NULL, old_size, new_size, alignment)
         = alloc_alloc(kind, World, new_size, alignment)

(* C2: arena and stack: for every base, cursor and alignment, a           *)
(* successful allocate(size, alignment) returns a multiple of alignment   *)
(* whose span [address, address + size) lies inside the bound buffer      *)
C2_AlignedInsideBuffer ==
  kind \in {"arena", "stack"} =>
    \A size \in Sizes \cup {SIZE_MAX}, alignment \in Alignments :
      \A r \in {alloc_alloc(kind, World, size, alignment)} :
        \A buf \in {IF kind = "arena" THEN arena ELSE stack} :
          r.ret # NULL =>
            /\ r.ret % alignment = 0
            /\ Inside(r.ret, size, buf.buffer, buf.buffer_size)

(* C3: freelist: from every state, for every size and alignment, when     *)
(* allocate(size, alignment) returns p and release(p, size) follows, the  *)
(* next allocate(size, alignment) returns p again                         *)
C3_FreelistReuse ==
  kind = "freelist" =>
    \A size \in Sizes, alignment \in Alignments :
      \A r1 \in {alloc_alloc(kind, World, size, alignment)} :
        (r1.ret # NULL /\ ~r1.w.hung) =>
          \A r2 \in {alloc_free(kind, r1.w, r1.ret, size)} :
            \A r3 \in {alloc_alloc(kind, r2.w, size, alignment)} :
              ~r3.w.hung /\ r3.ret = r1.ret

FreeBlocksDisjoint ==
  \A c \in {free_chain(World)} :
      \A i, j \in 1 .. Len(c) :
        i < j => Disjoint(c[i].addr, c[i].size, c[j].addr, c[j].size)

FreeBlocksInBuffer ==
  \A c \in {free_chain(World)} :
      \A i \in 1 .. Len(c) :
        Inside(c[i].addr, c[i].size, freelist.buffer, freelist.buffer_size)

FreeBlocksNotLive ==
  \A c \in {free_chain(World)} :
      \A i \in 1 .. Len(c) : \A b \in live :
        Disjoint(c[i].addr, c[i].size, b.ptr, b.size)

LiveDisjoint ==
  \A b1, b2 \in live : b1 # b2 => Disjoint(b1.ptr, b1.size, b2.ptr, b2.size)

(* C4: the free blocks are pairwise disjoint, lie within the buffer and   *)
(* overlap no live allocation, and the live allocations are disjoint      *)
C4_FreelistDisjoint ==
  kind = "freelist" =>
    FreeBlocksDisjoint /\ FreeBlocksInBuffer /\ FreeBlocksNotLive /\ LiveDisjoint

(* the free capacity: the sum of the sizes the chain's headers record *)
RECURSIVE SumSizes(_)
SumSizes(c) == IF c = <<>> THEN 0 ELSE Head(c).size + SumSizes(Tail(c))

free_capacity(w) == SumSizes(free_chain(w))

(* C5: freelist: from every state, when allocate(size, alignment)         *)
(* returns p and release(p, size) follows, the free capacity afterwards   *)
(* is the free capacity before, less at most the header of one split:     *)
(* nothing is lost to padding or to a remainder that was not split off    *)
C5_FreelistCapacity ==
  kind = "freelist" =>
    \A size \in Sizes, alignment \in Alignments :
      \A r1 \in {alloc_alloc(kind, World, size, alignment)} :
        (r1.ret # NULL /\ ~r1.w.hung) =>
          \A r2 \in {alloc_free(kind, r1.w, r1.ret, size)} :
            /\ free_capacity(r2.w) <= free_capacity(World)
            /\ free_capacity(r2.w) >= free_capacity(World) - NodeSize

(* the tracking sequence: allocations[0 .. allocation_count - 1] *)
tracked(w) ==
  [i \in 1 .. w.scratch.allocation_count |-> w.mem[slot(w, i - 1)]]

(* C6: scratch reset passes every tracked pointer once to the backing's   *)
(* release, with the size the pointer was allocated or last reallocated   *)
(* with; afterwards the count is 0 and the capacity is unchanged          *)
C6_ScratchReset ==
  kind = "scratch" =>
    \A w \in {scratch_allocator_reset(World)} :
      /\ w.log = issued
      /\ w.scratch.allocation_count = 0
      /\ w.scratch.allocation_capacity = scratch.allocation_capacity

(* C7: the tracking sequence holds the pointers issued since the last     *)
(* reset, in their slots, none of them twice, so its count is the number  *)
(* of successful allocations; scratch release changes nothing             *)
C7_ScratchTracking ==
  kind = "scratch" =>
    \A t \in {tracked(World)} :
      /\ Len(t) = Len(issued)
      /\ \A i \in 1 .. Len(issued) :
           /\ i <= Len(t) => t[i] = issued[i].ptr
           /\ scratch_allocator_free(World, issued[i].ptr, issued[i].size).w
              = World
      /\ \A i, j \in 1 .. Len(t) : i # j => t[i] # t[j]

(* the space a core strategy has left to give out *)
RECURSIVE pool_chain(_, _, _)
pool_chain(m, chunk, fuel) ==
  IF chunk = NULL \/ fuel = 0 THEN <<>>
  ELSE <<chunk>> \o pool_chain(m, m[chunk], fuel - 1)

space_available(k, w) ==
  CASE k = "arena" -> w.arena.buffer_size - w.arena.offset
    [] k = "stack" -> w.stack.buffer_size - w.stack.offset
    [] k = "pool" -> Len(pool_chain(w.mem, w.pool.free_list, AddrMod + 1))
    [] k = "freelist" -> free_capacity(w)

(* a scratch allocate in which the backing's allocate succeeds and the    *)
(* growth of the tracking array fails: alloc.h:407-426                    *)
growth_fails(w, size, alignment) ==
  \A r \in {alloc_alloc(w.scratch.backing, w, size, alignment)} :
    /\ r.ret # NULL /\ ~r.w.hung
    /\ w.scratch.allocation_count >= w.scratch.allocation_capacity
    /\ \A g \in {alloc_realloc(
                    w.scratch.backing, r.w, w.scratch.allocations,
                    Wrap(w.scratch.allocation_capacity * PtrSize),
                    Wrap((IF w.scratch.allocation_capacity = 0
                          THEN InitialCapacity
                          ELSE w.scratch.allocation_capacity * 2) * PtrSize),
                    PtrSize)} :
         g.ret = NULL /\ ~g.w.hung

(* C8 as stated: when the backing's allocate succeeds and the growth      *)
(* fails, the call fails, the tracked count, capacity and contents are    *)
(* unchanged and the backing has the space available it had before        *)
C8_NoLeakAnyBacking ==
  kind = "scratch" =>
    \A size \in Sizes, alignment \in Alignments :
      growth_fails(World, size, alignment) =>
        \A r \in {scratch_allocator_alloc(World, size, alignment)} :
          /\ r.ret = NULL
          /\ r.w.scratch = scratch
          /\ tracked(r.w) = tracked(World)
          /\ space_available(scratch.backing, r.w)
             = space_available(scratch.backing, World)

(* C8, amended: when the backing's allocate succeeds and the growth       *)
(* fails, the call fails, the tracked count, capacity and contents are    *)
(* unchanged and the block is passed once to the backing's release with   *)
(* the size requested; a pool backing is then as it was before the call,  *)
(* an arena backing, whose release does nothing, keeps its cursor past    *)
(* the block                                                              *)
C8_ReleasedToBacking ==
  kind = "scratch" =>
    \A size \in Sizes, alignment \in Alignments :
      growth_fails(World, size, alignment) =>
        \A r \in {scratch_allocator_alloc(World, size, alignment)} :
          /\ r.ret = NULL
          /\ r.w.scratch = scratch
          /\ tracked(r.w) = tracked(World)
          /\ r.w.log = <<Block(alloc_alloc(scratch.backing, World, size,
                                           alignment).ret, size)>>
          /\ scratch.backing = "pool" => r.w.pool = pool /\ r.w.mem = mem
          /\ scratch.backing = "arena" =>
               r.w.arena = alloc_alloc("arena", World, size, alignment).w.arena

(* a scratch allocate over an arena failed to grow the tracking array:    *)
(* the block went to the arena's release and the cursor stays past it     *)
C8_Witness ==
  /\ kind = "scratch" /\ scratch.backing = "arena"
  /\ op.name = "alloc" /\ op.ret = NULL
  /\ Len(log) = 1 /\ log[1].size > 0
  /\ arena.offset > 0

(* C9: arena: 0 <= offset <= buffer_size after every call; reset sets the *)
(* offset to 0; release leaves the offset alone; an allocate that         *)
(* succeeds right after a reset returns the buffer start                  *)
C9_ArenaCursor ==
  /\ [](kind = "arena" =>
          0 <= arena.offset /\ arena.offset <= arena.buffer_size)
  /\ [][kind = "arena" =>
          /\ op'.name = "reset" => arena'.offset = 0
          /\ op'.name = "free" => arena'.offset = arena.offset
          /\ (op.name = "reset" /\ op'.name = "alloc" /\ op'.ret # NULL)
               => op'.ret = arena.buffer]_vars

(* an allocate that followed a reset returned the buffer start *)
C9_Witness ==
  /\ kind = "arena"
  /\ op.name = "alloc" /\ op.prev = "reset"
  /\ op.ret = arena.buffer /\ arena.offset > 0

(* C10: arena, stack, pool, freelist: an allocate or reallocate that      *)
(* returns failure leaves the strategy's state and the memory as they     *)
(* were, and the blocks the client holds are still its blocks             *)
C10_FailureAtomic ==
  [][(kind \in CoreKinds /\ op'.name \in {"alloc", "realloc"}
      /\ op'.ret = NULL /\ pc' = "run")
     => UNCHANGED <<arena, stack, pool, freelist, mem, live>>]_vars

(* a reallocate of a block the client holds failed *)
C10_Witness ==
  /\ kind \in {"stack", "freelist"}
  /\ op.name = "realloc" /\ op.ret = NULL
  /\ live # {} /\ pc = "run" /\ damage = 0

(* the pool's free chain, as allocate pops it *)
pool_free_chain(w) == pool_chain(w.mem, w.pool.free_list, AddrMod + 1)

(* C11: pool: right after init the chain lists the chunks in ascending    *)
(* address order; after any calls that release only live chunks, every    *)
(* address on the chain is in the buffer, at a multiple of chunk_size     *)
(* from its start and on the chain once (the chain is acyclic), and no    *)
(* chunk is both live and on the chain                                    *)
C11_PoolChain ==
  kind = "pool" =>
    \A c \in {pool_free_chain(World)} :
      /\ op.name = "init" =>
           c = [i \in 1 .. pool.chunk_count |->
                  pool.buffer + (i - 1) * pool.chunk_size]
      /\ Len(c) <= pool.chunk_count
      /\ \A i \in 1 .. Len(c) :
           /\ Inside(c[i], pool.chunk_size, pool.buffer,
                     pool.chunk_size * pool.chunk_count)
           /\ (c[i] - pool.buffer) % pool.chunk_size = 0
           /\ \A j \in 1 .. Len(c) : i # j => c[i] # c[j]
           /\ \A b \in live : b.ptr # c[i]

(* two chunks were released in turn: the chain runs from the second *)
(* chunk back to the first                                          *)
C11_Witness ==
  /\ kind = "pool" /\ op.name = "free" /\ live = {}
  /\ pool.free_list = pool.buffer + pool.chunk_size
  /\ mem[pool.free_list] = pool.buffer

(* C12: pool: the live allocations never outnumber the chunks; allocate   *)
(* fails on an empty chain, and for a size above chunk_size whatever the  *)
(* chain holds, leaving the chain as it was; allocate of a size up to     *)
(* chunk_size from a chain that is not empty succeeds                     *)
C12_PoolCapacity ==
  kind = "pool" =>
    /\ Cardinality(live) <= pool.chunk_count
    /\ \A size \in Sizes \cup {pool.chunk_size, pool.chunk_size + 1},
          alignment \in Alignments :
         \A r \in {alloc_alloc(kind, World, size, alignment)} :
           IF pool.free_list = NULL \/ size > pool.chunk_size
           THEN r.ret = NULL /\ r.w = World
           ELSE r.ret = pool.free_list

(* every chunk is live and one more allocate has failed *)
C12_Witness ==
  /\ kind = "pool" /\ op.name = "alloc" /\ op.ret = NULL
  /\ Cardinality(live) = pool.chunk_count
  /\ pool.free_list = NULL

(* C13: pool: from every state, after release(p, size) of a live chunk    *)
(* the next allocate that succeeds returns p, and chunks released as      *)
(* p1, p2 with no allocate between come back as p2, p1                    *)
C13_PoolLifo ==
  kind = "pool" =>
    \A b1 \in live, size \in 0 .. pool.chunk_size, alignment \in Alignments :
      \A w1 \in {alloc_free(kind, World, b1.ptr, b1.size).w} :
        /\ alloc_alloc(kind, w1, size, alignment).ret = b1.ptr
        /\ \A b2 \in live \ {b1} :
             \A w2 \in {alloc_free(kind, w1, b2.ptr, b2.size).w} :
               \A r \in {alloc_alloc(kind, w2, size, alignment)} :
                 /\ r.ret = b2.ptr
                 /\ alloc_alloc(kind, r.w, size, alignment).ret = b1.ptr

(* the second chunk was handed out again while the first, released *)
(* before it, waits on the chain                                   *)
C13_Witness ==
  /\ kind = "pool" /\ op.name = "alloc"
  /\ op.ret = pool.buffer + pool.chunk_size
  /\ \A b \in live : b.ptr = op.ret
  /\ live # {}
  /\ pool.free_list = pool.buffer

(* C14: stack: restore(mark()) changes nothing; whatever was allocated,   *)
(* reallocated and released since m = mark(), restore(m) puts the offset  *)
(* back to the one recorded in m and changes nothing else; reset() does   *)
(* what restoring a marker taken right after init does                    *)
C14_StackMarkRestore ==
  kind = "stack" =>
    /\ stack_allocator_restore(World, stack_allocator_mark(World)) = World
    /\ \A i \in 1 .. Len(markers) :
         stack_allocator_restore(World, markers[i])
         = [World EXCEPT !.stack.offset = markers[i].offset]
    /\ stack_allocator_reset(World)
       = stack_allocator_restore(
           World,
           stack_allocator_mark(
             stack_allocator_init(World, stack.buffer, stack.buffer_size)))

(* a marker taken above the buffer start was restored while a block *)
(* below it is live                                                 *)
C14_Witness ==
  /\ kind = "stack" /\ op.name = "restore"
  /\ Len(markers) = 1 /\ markers[1].offset > 0
  /\ stack.offset = markers[1].offset
  /\ live # {}

C16_FreelistTerminates ==
  kind = "freelist" =>
    /\ pc = "run"
    /\ Len(free_chain(World)) <= AddrMod
    /\ \A size \in Sizes, alignment \in Alignments :
         ~alloc_alloc(kind, World, size, alignment).w.hung

(* the distance from a block's start to the next multiple of alignment *)
padding_of(addr, alignment) == Wrap(align_forward(addr, alignment) - addr)

(* the places on chain c of the blocks that hold size bytes behind their  *)
(* padding                                                                *)
fitting(c, size, alignment) ==
  {i \in 1 .. Len(c) : c[i].size >= size + padding_of(c[i].addr, alignment)}

(* C17: freelist first fit: allocate(size, alignment) takes the first     *)
(* block on the chain whose size is at least size + padding and returns   *)
(* its aligned address; it fails, leaving everything as it was, only when *)
(* no block on the chain has size >= size + padding                       *)
C17_FreelistFirstFit ==
  kind = "freelist" =>
    \A size \in Sizes, alignment \in Alignments :
      \A c \in {free_chain(World)} :
        \A r \in {alloc_alloc(kind, World, size, alignment)} :
          \A fit \in {fitting(c, size, alignment)} :
            ~r.w.hung =>
              IF fit = {} THEN r.ret = NULL /\ r.w = World
              ELSE \A first \in {CHOOSE i \in fit : \A j \in fit : i <= j} :
                     r.ret = align_forward(c[first].addr, alignment)

(* chain c without its i-th block *)
RemoveAt(c, i) == SubSeq(c, 1, i - 1) \o SubSeq(c, i + 1, Len(c))

(* the places on chain c of the blocks the walk of alloc.h:529-535 stops  *)
(* at: the first of them is the block taken                               *)
accepted(c, size, alignment) ==
  {i \in 1 .. Len(c) :
     /\ c[i].size >= Wrap(size + alignment - 1)
     /\ c[i].size >= Wrap(size + padding_of(c[i].addr, alignment))}

(* C18: freelist split rule, over a well-formed heap: when allocate takes *)
(* a block of size B with padding p, then exactly when the remainder      *)
(* B - (size + p) is larger than a header the block at start + size + p   *)
(* of size B - (size + p) is put at the chain head, before the rest of    *)
(* the chain in its order; otherwise the rest of the chain is all there is*)
C18_FreelistSplit ==
  (kind = "freelist" /\ damage = 0) =>
    \A size \in Sizes, alignment \in Alignments :
      \A c \in {free_chain(World)} :
        \A r \in {alloc_alloc(kind, World, size, alignment)} :
          \A acc \in {accepted(c, size, alignment)} :
            (r.ret # NULL /\ ~r.w.hung /\ acc # {}) =>
              \A i \in {CHOOSE i \in acc : \A j \in acc : i <= j} :
                \A p \in {padding_of(c[i].addr, alignment)} :
                  free_chain(r.w) =
                    IF c[i].size - (size + p) > NodeSize
                    THEN <<[addr |-> c[i].addr + size + p,
                            size |-> c[i].size - (size + p)]>>
                         \o RemoveAt(c, i)
                    ELSE RemoveAt(c, i)

(* the cursor rounded up to a multiple of alignment, as an integer *)
aligned_up(offset, alignment) ==
  ((offset + alignment - 1) \div alignment) * alignment

(* C19: arena and stack, sizes up to the largest size_t: when the aligned *)
(* cursor plus size is more than the buffer size, as integers, allocate   *)
(* fails and the cursor stays; a span returned never ends past the buffer *)
C19_BoundsCheck ==
  kind \in {"arena", "stack"} =>
    \A size \in Sizes \cup {SIZE_MAX - 1, SIZE_MAX}, alignment \in Alignments :
      \A r \in {alloc_alloc(kind, World, size, alignment)} :
        \A buf \in {IF kind = "arena" THEN arena ELSE stack} :
          /\ aligned_up(buf.offset, alignment) + size > buf.buffer_size
               => r.ret = NULL /\ r.w = World
          /\ r.ret # NULL
               => (r.ret - buf.buffer) + size <= buf.buffer_size

(* C20: arena and stack: the spans of two live blocks share no byte, and  *)
(* the span of a live block lies in [0, offset) of the buffer (a block of *)
(* size 0 has no bytes)                                                   *)
C20_LiveSpansApart ==
  kind \in {"arena", "stack"} =>
    \A buf \in {IF kind = "arena" THEN arena ELSE stack} :
      \A b1 \in live :
        /\ b1.size = 0 \/ Inside(b1.ptr, b1.size, buf.buffer, buf.offset)
        /\ \A b2 \in live \ {b1} :
             \/ b1.size = 0 \/ b2.size = 0
             \/ Disjoint(b1.ptr, b1.size, b2.ptr, b2.size)

(* C21: freelist: every block on the free chain records a size of at      *)
(* least one header, and the header that release(ptr, size) writes for a  *)
(* live block stays inside [ptr, ptr + size): no word outside the block   *)
(* changes                                                                *)
C21_HeaderContained ==
  kind = "freelist" =>
    /\ \A c \in {free_chain(World)} :
         \A i \in 1 .. Len(c) : c[i].size >= NodeSize
    /\ \A b \in live :
         \A r \in {freelist_allocator_free(World, b.ptr, b.size)} :
           \A a \in Addr :
             ~(b.ptr <= a /\ a < b.ptr + b.size) => r.w.mem[a] = mem[a]

====
